---- MODULE Spec2Model ----
(***************************************************************************)
(* Streaming market-data client and trade simulator of GoQuant.            *)
(*                                                                         *)
(* WebSocketClient.connect() is a coroutine run on its own thread; it is   *)
(* modelled as a small program counter per client, one action per section  *)
(* of the coroutine between two points where another thread (the           *)
(* TradeSimulator's stop()/reconnect()) or the feed can interleave.        *)
(***************************************************************************)
EXTENDS Integers, Sequences, FiniteSets, TLC

\* ------------------------------------------------------------------ bounds
\* Number of WebSocketClient objects the simulator creates (the first in
\* TradeSimulator.__init__, the others by reconnect()).
MaxClients == 2
\* The ceiling of the ConnectionManager, its constructor's parameter
\* max_reconnect_attempts (WebSocketClient passes 10): the model runs the
\* manager with a small ceiling.
max_reconnect_attempts == 2

\* Number of simulate_trade calls in the runs of the cost-estimation path.
MaxCalls == 2
\* PerformanceTracker(max_samples): the window of the tracker taken alone
\* (the global performance_tracker keeps the default, 1000), and the number
\* of values recorded into it.
max_samples == 2
MaxRecords == 4
\* Levels on one side of the books given to one OrderbookData alone, and
\* the largest quantity asked of get_price_for_quantity (one more than the
\* largest side holds).
MaxLevels == 3
MaxQuantity == 7
\* Number of failures handed to one ConnectionManager between two resets in
\* the runs of the manager on its own.
MaxFailures == 4
\* config.DEFAULT_MARKET_PARAMS['OKX']['BTC-USDT']['avg_daily_volume'] (the
\* configuration gives 1000000000): the model runs with a small volume so
\* that the fractions stay within TLC's integers.
avg_daily_volume == 1000

\* simulate_trade's price and spread when no snapshot is cached.
DefaultPrice == 50000
DefaultSpreadBps == 1

\* The seconds the ConnectionManager of a client waits in
\* handle_connection_failure (its reconnect_delay) and the seconds connect()
\* waits before its next attempt.
reconnect_delay == 5
BackoffSeconds == 5

Clients == 1..MaxClients

VARIABLES
    nClients,     \* number of WebSocketClient objects created so far;
                  \* websocket_clients["OKX_BTC-USDT"] is client nClients
    pc,           \* pc[c]: where client c's connect() coroutine stands
    running,      \* running[c]: WebSocketClient.running
    stopped,      \* stopped[c]: stop() has been called on client c
    attempts,     \* attempts[c]: connection_manager.reconnect_attempts of c;
                  \* attempts[0]: that of the TradeSimulator's own manager
    fails,        \* fails[c]: failures handled by connect() since the last
                  \* successful open (history, not program state)
    msg,          \* msg[c]: the frame recv() returned in the current pass
                  \* of c's receive loop (NoFrame: none yet)
    called,       \* called[c]: how often c has invoked its callback in the
                  \* current pass of its receive loop
    orderbook_data, \* TradeSimulator.orderbook_data: key -> snapshot
    tokens,       \* tokens[c]: the status tokens that the latest reporting
                  \* step of client c (0: the TradeSimulator itself) passed
                  \* to the status callback, in order
    last,         \* the snapshot the streaming client passed to its callback
                  \* most recently (history, not program state)
    request,      \* the params of the latest simulate_trade call
    result,       \* what that call returned, or that it raised
    samples,      \* samples[m]: len(performance_tracker.metrics[m])
    metrics,      \* PerformanceTracker.metrics of a tracker constructed with
                  \* max_samples, taken alone: name -> stored values
    recorded,     \* recorded[m]: every value passed to that tracker's
                  \* record for m, in order (history, not program state)
    connection_status,      \* ConnectionManager.connection_status
    is_internet_connected,  \* ConnectionManager.is_internet_connected
    is_vpn_active,          \* ConnectionManager.is_vpn_active
    vpn_override,           \* ConnectionManager.vpn_override
    refused       \* handle_connection_failure has returned False since the
                  \* last reset of the counter (history, not program state)

\* The state of the streaming clients.
streamVars == <<nClients, pc, running, stopped, attempts, fails, msg, called,
                tokens>>

\* The state of the cost-estimation path.
simVars == <<last, request, result, samples>>

\* The state of one PerformanceTracker taken alone.
trackerVars == <<metrics, recorded>>

\* The state of one ConnectionManager besides its counter.
cmVars == <<connection_status, is_internet_connected, is_vpn_active,
            vpn_override, refused>>

vars == <<nClients, pc, running, stopped, attempts, fails, msg,
          called, orderbook_data, tokens, last, request, result, samples,
          metrics, recorded,
          connection_status, is_internet_connected, is_vpn_active,
          vpn_override, refused>>

\* -------------------------------------------------------------- frames
\* An inbound frame as the feed sends it.  json: the text parses as a JSON
\* object; has*: the field is present; numeric: every price and quantity
\* string parses as a float; asks/bids: the parsed ladders.
NoFrame == [timestamp |-> 0, json |-> FALSE, hasExchange |-> FALSE, hasSymbol |-> FALSE,
            hasTimestamp |-> FALSE, hasAsks |-> FALSE, hasBids |-> FALSE,
            numeric |-> FALSE, exchange |-> "None", symbol |-> "None",
            asks |-> <<>>, bids |-> <<>>]

GoodFrame == [timestamp |-> 1, json |-> TRUE, hasExchange |-> TRUE, hasSymbol |-> TRUE,
              hasTimestamp |-> TRUE, hasAsks |-> TRUE, hasBids |-> TRUE,
              numeric |-> TRUE, exchange |-> "OKX", symbol |-> "BTC-USDT",
              asks |-> << <<101, 3>>, <<100, 2>> >>,
              bids |-> << <<98, 5>>, <<99, 1>> >>]

\* The frames the feed may send: a well-formed one and one for each way the
\* external-interface section calls a frame malformed.
FrameShapes ==
    { GoodFrame,
      [GoodFrame EXCEPT !.json = FALSE],
      [GoodFrame EXCEPT !.hasExchange = FALSE],
      [GoodFrame EXCEPT !.hasSymbol = FALSE],
      [GoodFrame EXCEPT !.hasTimestamp = FALSE],
      [GoodFrame EXCEPT !.hasAsks = FALSE, !.asks = <<>>],
      [GoodFrame EXCEPT !.hasBids = FALSE, !.bids = <<>>],
      [GoodFrame EXCEPT !.numeric = FALSE] }

\* A frame with every field of the feed's schema and numeric ladders.
WellFormed(f) ==
    /\ f.json
    /\ f.hasExchange /\ f.hasSymbol /\ f.hasTimestamp /\ f.hasAsks /\ f.hasBids
    /\ f.numeric

\* ------------------------------------------------------------ numbers
\* Python's floats and numpy's float64 are modelled as exact fractions
\* <<n, d>> in lowest terms with d > 0.  What numpy returns for a division
\* by zero (inf, -inf, nan, with a warning) is <<1, 0>>, <<-1, 0>>, <<0, 0>>;
\* where Python itself divides by zero the caller's model raises instead.
Abs(n) == IF n < 0 THEN -n ELSE n

GCD(a, b) ==
    LET g[x \in Nat, y \in Nat] == IF y = 0 THEN x ELSE g[y, x % y]
    IN  g[a, b]

\* The fraction n/d in lowest terms.  (Here and below the arguments are
\* bound to their values once, by the quantifier.)
Lowest(n, d) == CHOOSE r \in {<<n \div g, d \div g>> : g \in {GCD(Abs(n), d)}} : TRUE

Rat(n, d) == CHOOSE r \in {Lowest(nv, dv) : nv \in {n}, dv \in {d}} : TRUE

R(n) == <<n, 1>>

Zero == <<0, 1>>

Sum(x, y) ==
    CHOOSE r \in {Rat(x[1] * (y[2] \div g) + y[1] * (x[2] \div g),
                      (x[2] \div g) * y[2]) : g \in {GCD(x[2], y[2])}} : TRUE

RAdd(x, y) == CHOOSE r \in {Sum(xv, yv) : xv \in {x}, yv \in {y}} : TRUE

RNeg(x) == CHOOSE r \in {<<-xv[1], xv[2]>> : xv \in {x}} : TRUE

RSub(x, y) == RAdd(x, RNeg(y))

Product(x, y) ==
    CHOOSE r \in {<<a[1] * b[1], a[2] * b[2]>> :
                     a \in {Rat(x[1], y[2])}, b \in {Rat(y[1], x[2])}} : TRUE

RMul(x, y) == CHOOSE r \in {Product(xv, yv) : xv \in {x}, yv \in {y}} : TRUE

\* x / y for y # 0.
RDiv(x, y) ==
    CHOOSE r \in {IF yv[1] > 0 THEN RMul(xv, <<yv[2], yv[1]>>)
                                ELSE RMul(xv, <<-yv[2], -yv[1]>>) :
                     xv \in {x}, yv \in {y}} : TRUE

\* x / y where x is a numpy float64: no exception for y = 0.
NumpyDiv(x, y) ==
    CHOOSE r \in {IF yv[1] # 0 THEN RDiv(xv, yv)
                    ELSE <<IF xv[1] > 0 THEN 1 ELSE IF xv[1] < 0 THEN -1 ELSE 0, 0>> :
                     xv \in {x}, yv \in {y}} : TRUE

RLess(x, y) == \E xv \in {x}, yv \in {y} : xv[1] * yv[2] < yv[1] * xv[2]

RMin(x, y) ==
    CHOOSE r \in {IF RLess(yv, xv) THEN yv ELSE xv : xv \in {x}, yv \in {y}} : TRUE

RMax(x, y) ==
    CHOOSE r \in {IF RLess(xv, yv) THEN yv ELSE xv : xv \in {x}, yv \in {y}} : TRUE

\* ------------------------------------------------------- OrderbookData
\* Insertion of a level into a ladder sorted by price, ascending.
RECURSIVE InsertAsc(_, _)
InsertAsc(lv, s) ==
    IF s = <<>> THEN <<lv>>
    ELSE IF lv[1] < Head(s)[1] THEN <<lv>> \o s
    ELSE <<Head(s)>> \o InsertAsc(lv, Tail(s))

\* sort_values('price', ascending=True)
RECURSIVE SortAsc(_)
SortAsc(s) == IF s = <<>> THEN <<>> ELSE InsertAsc(Head(s), SortAsc(Tail(s)))

Reverse(s) == [i \in 1..Len(s) |-> s[Len(s) + 1 - i]]

\* sort_values('price', ascending=False)
SortDesc(s) == Reverse(SortAsc(s))

\* OrderbookData.__init__ without the 'Z' replacement of line 59:
\* datetime.fromisoformat rejects the feed's timestamps, so it raises for
\* every frame.
ConstructorRaisesOnTimestamp(f) == TRUE

\* OrderbookData.__init__ raises for this frame: timestamp None has no
\* replace(), a non-numeric price or quantity fails astype(float).  A missing
\* exchange or symbol is stored as None and missing asks/bids arrive as [].
ConstructorRaises(f) == ~f.hasTimestamp \/ ~f.numeric

\* OrderbookData.__init__ that keeps the ladders in the order of the frame.
OrderbookDataUnsorted(f) ==
    [exchange  |-> IF f.hasExchange THEN f.exchange ELSE "None",
     symbol    |-> IF f.hasSymbol THEN f.symbol ELSE "None",
     timestamp |-> f.timestamp,
     asks      |-> IF f.hasAsks THEN f.asks ELSE <<>>,
     bids      |-> IF f.hasBids THEN f.bids ELSE <<>>]

\* The OrderbookData object built from a frame.
OrderbookData(f) ==
    [exchange  |-> IF f.hasExchange THEN f.exchange ELSE "None",
     symbol    |-> IF f.hasSymbol THEN f.symbol ELSE "None",
     timestamp |-> f.timestamp,
     asks      |-> SortAsc(IF f.hasAsks THEN f.asks ELSE <<>>),
     bids      |-> SortDesc(IF f.hasBids THEN f.bids ELSE <<>>)]

NoSnapshot == [exchange |-> "None", symbol |-> "None", timestamp |-> 0,
               asks |-> <<>>, bids |-> <<>>]

\* OrderbookData.mid_price; 0 when a side is empty or a best price is 0.
mid_price(ob) ==
    LET best_ask == IF ob.asks # <<>> THEN ob.asks[1][1] ELSE 0
        best_bid == IF ob.bids # <<>> THEN ob.bids[1][1] ELSE 0
    IN  IF best_ask # 0 /\ best_bid # 0 THEN Rat(best_ask + best_bid, 2) ELSE Zero

\* OrderbookData.spread without the test of the two best prices.
SpreadUnguarded(ob) ==
    LET best_ask == IF ob.asks # <<>> THEN ob.asks[1][1] ELSE 0
        best_bid == IF ob.bids # <<>> THEN ob.bids[1][1] ELSE 0
    IN  R(best_ask - best_bid)

\* OrderbookData.spread
spread(ob) ==
    LET best_ask == IF ob.asks # <<>> THEN ob.asks[1][1] ELSE 0
        best_bid == IF ob.bids # <<>> THEN ob.bids[1][1] ELSE 0
    IN  IF best_ask # 0 /\ best_bid # 0 THEN R(best_ask - best_bid) ELSE Zero

\* OrderbookData.spread_bps
spread_bps(ob) ==
    LET mid == mid_price(ob)
    IN  IF mid # Zero THEN RMul(RDiv(spread(ob), mid), R(10000)) ELSE Zero

\* The column cumulative_quantity at row i of a ladder (rows from 1; 0
\* before the first row).
RECURSIVE CumulativeQuantity(_, _)
CumulativeQuantity(df, i) ==
    IF i = 0 THEN 0 ELSE df[i][2] + CumulativeQuantity(df, i - 1)

\* df.iloc[:i]['notional'].sum(): the notional of the first i rows.
RECURSIVE NotionalSum(_, _)
NotionalSum(df, i) ==
    IF i = 0 THEN 0 ELSE df[i][1] * df[i][2] + NotionalSum(df, i - 1)

\* df['cumulative_quantity'].searchsorted(quantity): the position (from 0)
\* of the first row whose cumulative quantity is not below the quantity,
\* len(df) if there is none.
SearchSorted(df, quantity) ==
    Cardinality({i \in 1..Len(df) : CumulativeQuantity(df, i) < quantity})

\* OrderbookData.get_price_for_quantity: None, the price, or the IndexError
\* of `.iloc[-1]` on the empty slice df.iloc[:idx-1] when idx is 1.
GetPriceForQuantity(ob, quantity, side) ==
    LET df == IF side = "buy" THEN ob.asks ELSE ob.bids
        idx == SearchSorted(df, quantity)
    IN  IF idx >= Len(df) THEN [outcome |-> "None", price |-> Zero]
        ELSE IF idx = 0 THEN [outcome |-> "value", price |-> R(df[1][1])]
        ELSE IF idx - 1 = 0 THEN [outcome |-> "IndexError", price |-> Zero]
        ELSE LET remaining_quantity == quantity - CumulativeQuantity(df, idx - 1)
                 total_notional == NotionalSum(df, idx)
                                     + remaining_quantity * df[idx + 1][1]
             IN  [outcome |-> "value", price |-> Rat(total_notional, quantity)]

\* The keys of TradeSimulator.orderbook_data: f"{exchange}_{symbol}", for
\* the exchanges and symbols of the frames and of the requests.
Keys == {"OKX", "None"} \X {"BTC-USDT", "ETH-USDT", "BTC-USDT-SWAP", "None"}

KeyOf(ob) == <<ob.exchange, ob.symbol>>

\* on_orderbook_update that keeps the snapshot a key already has.
OnOrderbookUpdateKeepFirst(cache, ob) ==
    IF cache[KeyOf(ob)] = NoSnapshot THEN [cache EXCEPT ![KeyOf(ob)] = ob]
    ELSE cache

\* TradeSimulator.on_orderbook_update: the cache after the update.
OnOrderbookUpdate(cache, ob) == [cache EXCEPT ![KeyOf(ob)] = ob]

\* ---------------------------------------------------------- cost models
\* str.lower() that leaves the letters as they are.
LowerKeepsCase(t) == t

\* str.lower() on the order types of the requests.
Lower(t) ==
    CASE t \in {"Market", "MARKET", "mArKeT", "market"} -> "market"
      [] t \in {"Limit", "limit"} -> "limit"
      [] OTHER -> t

\* The heuristic's proportion left as computed, outside [0, 1] too.
Unclamped(x) == x

\* predict_maker_taker, line 88: max(0.0, min(1.0, x)).
Clamped(x) == RMax(Zero, RMin(R(1), x))

\* MakerTakerModel.predict_maker_taker; predicted is what the fitted
\* classifier's predict() returns.
PredictMakerTaker(quantity, volatility, spr_bps, order_type, is_fitted, predicted) ==
    IF Lower(order_type) = "market"
    THEN [maker_proportion |-> Zero, taker_proportion |-> R(1)]
    ELSE IF ~is_fitted
    THEN LET base_maker == Rat(1, 2)
             vol_factor == RMin(R(1), RMul(volatility, R(2)))
             spread_factor == RMin(R(1), RDiv(spr_bps, R(20)))
             quantity_factor == RMin(R(1), RDiv(quantity, R(10)))
             maker == Clamped(
                         RSub(RSub(RSub(base_maker, RMul(vol_factor, Rat(1, 5))),
                                   RMul(spread_factor, Rat(1, 5))),
                              RMul(quantity_factor, Rat(1, 10))))
         IN  [maker_proportion |-> maker, taker_proportion |-> RSub(R(1), maker)]
    ELSE [maker_proportion |-> predicted, taker_proportion |-> RSub(R(1), predicted)]

\* models/fee.py, OKX_FEE_TIERS
OKX_FEE_TIERS ==
    [t \in {"VIP0", "VIP1", "VIP2", "VIP3", "VIP4", "VIP5"} |->
        CASE t = "VIP0" -> [maker |-> Rat(8, 10000), taker |-> Rat(10, 10000)]
          [] t = "VIP1" -> [maker |-> Rat(7, 10000), taker |-> Rat(9, 10000)]
          [] t = "VIP2" -> [maker |-> Rat(6, 10000), taker |-> Rat(8, 10000)]
          [] t = "VIP3" -> [maker |-> Rat(5, 10000), taker |-> Rat(7, 10000)]
          [] t = "VIP4" -> [maker |-> Rat(4, 10000), taker |-> Rat(6, 10000)]
          [] t = "VIP5" -> [maker |-> Rat(3, 10000), taker |-> Rat(5, 10000)]]

\* calculate_fee's tier for an unknown one, were it the last of the table.
FeeTierOfHighest(fee_tier) ==
    IF fee_tier \in DOMAIN OKX_FEE_TIERS THEN fee_tier ELSE "VIP5"

\* calculate_fee, lines 60-62: an unknown tier is replaced by VIP0.
FeeTierOf(fee_tier) ==
    IF fee_tier \in DOMAIN OKX_FEE_TIERS THEN fee_tier ELSE "VIP0"

\* calculate_fee that charges the taker rate on the whole notional.
CalculateFeeTakerInFull(quantity, price, fee_tier, maker_proportion) ==
    LET tier == FeeTierOf(fee_tier)
        maker_rate == OKX_FEE_TIERS[tier].maker
        taker_rate == OKX_FEE_TIERS[tier].taker
        notional == RMul(quantity, price)
        maker_fee == RMul(RMul(notional, maker_rate), maker_proportion)
        taker_fee == RMul(notional, taker_rate)
        total_fee == RAdd(maker_fee, taker_fee)
        effective_rate == IF RLess(Zero, notional) THEN RDiv(total_fee, notional)
                          ELSE Zero
    IN  [maker_fee |-> maker_fee, taker_fee |-> taker_fee, total_fee |-> total_fee,
         effective_rate |-> effective_rate,
         effective_bps |-> RMul(effective_rate, R(10000)),
         notional |-> notional]

\* FeeModel.calculate_fee
CalculateFee(quantity, price, fee_tier, maker_proportion) ==
    LET tier == FeeTierOf(fee_tier)
        maker_rate == OKX_FEE_TIERS[tier].maker
        taker_rate == OKX_FEE_TIERS[tier].taker
        notional == RMul(quantity, price)
        maker_fee == RMul(RMul(notional, maker_rate), maker_proportion)
        taker_fee == RMul(RMul(notional, taker_rate), RSub(R(1), maker_proportion))
        total_fee == RAdd(maker_fee, taker_fee)
        effective_rate == IF RLess(Zero, notional) THEN RDiv(total_fee, notional)
                          ELSE Zero
    IN  [maker_fee |-> maker_fee, taker_fee |-> taker_fee, total_fee |-> total_fee,
         effective_rate |-> effective_rate,
         effective_bps |-> RMul(effective_rate, R(10000)),
         notional |-> notional]

\* config.py, ALMGREN_CHRISS_PARAMS
ALMGREN_CHRISS_PARAMS == [eta |-> Rat(1, 10), gamma |-> Rat(1, 10), T |-> R(1)]

\* np.sqrt, on the squares of small fractions.
Sqrt(x) == CHOOSE r \in {Rat(a, b) : a \in 0..4, b \in 1..4} : RMul(r, r) = x

\* calculate_market_impact raises ZeroDivisionError: temporary_impact is a
\* numpy float64 (np.sqrt made it one), so line 88 only warns for price 0,
\* but permanent_impact is a Python float and line 89 divides it by price.
MarketImpactRaises(price) == price = Zero

\* calculate_market_impact with a temporary impact quadratic in the
\* participation rate.
CalculateMarketImpactSquared(quantity, price, market_volume, volatility) ==
    LET participation_rate == RDiv(quantity, market_volume)
        temporary_impact ==
            RMul(RMul(RMul(RMul(ALMGREN_CHRISS_PARAMS.eta, volatility),
                           Sqrt(ALMGREN_CHRISS_PARAMS.T)),
                      RMul(participation_rate, participation_rate)), price)
        permanent_impact ==
            RMul(RMul(ALMGREN_CHRISS_PARAMS.gamma, participation_rate), price)
        total_impact == RAdd(temporary_impact, permanent_impact)
    IN  [temporary_impact |-> temporary_impact,
         permanent_impact |-> permanent_impact,
         total_impact |-> total_impact,
         temporary_impact_bps |-> RMul(NumpyDiv(temporary_impact, price), R(10000)),
         permanent_impact_bps |-> RMul(RDiv(permanent_impact, price), R(10000)),
         total_impact_bps |-> RMul(NumpyDiv(total_impact, price), R(10000)),
         participation_rate |-> participation_rate]

\* AlmgrenChrissModel.calculate_market_impact, for a price it accepts.
CalculateMarketImpact(quantity, price, market_volume, volatility) ==
    LET participation_rate == RDiv(quantity, market_volume)
        temporary_impact ==
            RMul(RMul(RMul(RMul(ALMGREN_CHRISS_PARAMS.eta, volatility),
                           Sqrt(ALMGREN_CHRISS_PARAMS.T)),
                      participation_rate), price)
        permanent_impact ==
            RMul(RMul(ALMGREN_CHRISS_PARAMS.gamma, participation_rate), price)
        total_impact == RAdd(temporary_impact, permanent_impact)
    IN  [temporary_impact |-> temporary_impact,
         permanent_impact |-> permanent_impact,
         total_impact |-> total_impact,
         temporary_impact_bps |-> RMul(NumpyDiv(temporary_impact, price), R(10000)),
         permanent_impact_bps |-> RMul(RDiv(permanent_impact, price), R(10000)),
         total_impact_bps |-> RMul(NumpyDiv(total_impact, price), R(10000)),
         participation_rate |-> participation_rate]

\* SlippageModel.estimate_slippage on the model TradeSimulator builds, which
\* is never fitted: the heuristic.
EstimateSlippage(quantity, price, volatility, spr_bps) ==
    LET slippage_bps == RAdd(RDiv(spr_bps, R(2)),
                             RMul(RMul(quantity, volatility), Rat(1, 10)))
    IN  [slippage |-> RMul(RDiv(slippage_bps, R(10000)), price),
         slippage_bps |-> slippage_bps]

\* ------------------------------------------------------- simulate_trade
\* config.DEFAULT_MARKET_PARAMS['OKX']
DEFAULT_MARKET_PARAMS ==
    [a \in {"BTC-USDT", "ETH-USDT"} |->
        IF a = "BTC-USDT"
        THEN [volatility |-> Rat(3, 10), avg_daily_volume |-> avg_daily_volume,
              avg_spread_bps |-> R(1)]
        ELSE [volatility |-> Rat(4, 10), avg_daily_volume |-> avg_daily_volume \div 2,
              avg_spread_bps |-> Rat(3, 2)]]

\* The names under which the performance tracker holds samples.
Metrics == {"trade_simulation", "maker_taker_prediction", "fee_calculation",
            "market_impact_calculation", "slippage_estimation"}

\* PerformanceTracker.record, as the number of samples held (the window of
\* max_samples is not reached in MaxCalls calls).
Record(held, metric) == [held EXCEPT ![metric] = @ + 1]

\* The timeit decorator's record after the decorated model returned.
RECURSIVE RecordAll(_, _)
RecordAll(held, names) ==
    IF names = <<>> THEN held ELSE RecordAll(Record(held, Head(names)), Tail(names))

NoRequest == [exchange |-> "None", asset |-> "None", order_type |-> "None",
              quantity |-> 0, volatility |-> Zero, fee_tier |-> "None"]

NoResult == [raised |-> "NoCall"]

\* The requests: params of simulate_trade.
Requests ==
    [exchange : {"OKX"}, asset : {"BTC-USDT", "ETH-USDT"},
     order_type : {"Market", "limit"}, quantity : {0, 100},
     volatility : {Rat(3, 10)}, fee_tier : {"VIP0", "VIP9"}]

\* net_cost.value without the market impact.
NetCostWithoutImpact(slippage, fees, market_impact) ==
    RAdd(slippage.slippage, fees.total_fee)

\* simulate_trade, line 262.
NetCostValue(slippage, fees, market_impact) ==
    RAdd(RAdd(slippage.slippage, fees.total_fee), market_impact.total_impact)

\* calculate_fee called without the prediction: its parameter's default.
MakerProportionDefault(maker_taker) == Zero

\* simulate_trade, line 242: the maker proportion given to calculate_fee is
\* that of the prediction made just before.
MakerProportionOf(maker_taker) == maker_taker.maker_proportion

\* The metrics of the four models in the order simulate_trade calls them.
ModelOrder == <<"maker_taker_prediction", "fee_calculation",
                "market_impact_calculation", "slippage_estimation">>

\* TradeSimulator.simulate_trade on the cache: the dictionary it returns
\* (without the latency figures, which are means of measured durations), or
\* the exception it raises; timed: the models that returned, in order.
SimulateTrade(cache, params) ==
    LET key == <<params.exchange, params.asset>>
        orderbook == cache[key]
        price == IF orderbook = NoSnapshot THEN R(DefaultPrice)
                 ELSE mid_price(orderbook)
        spr_bps == IF orderbook = NoSnapshot THEN R(DefaultSpreadBps)
                   ELSE spread_bps(orderbook)
        market_volume == R(DEFAULT_MARKET_PARAMS[params.asset].avg_daily_volume)
        quantity == R(params.quantity)
        maker_taker == PredictMakerTaker(quantity, params.volatility, spr_bps,
                                         params.order_type, FALSE, Zero)
        fees == CalculateFee(quantity, price, params.fee_tier,
                             MakerProportionOf(maker_taker))
    IN  IF MarketImpactRaises(price)
        THEN [raised |-> "ZeroDivisionError",
              timed |-> <<"maker_taker_prediction", "fee_calculation">>]
        ELSE LET market_impact == CalculateMarketImpact(quantity, price,
                                      market_volume, params.volatility)
                 slippage == EstimateSlippage(quantity, price,
                                              params.volatility, spr_bps)
                 net_cost_value == NetCostValue(slippage, fees, market_impact)
                 notional == RMul(quantity, price)
             IN  [raised |-> "None",
                  timed |-> <<"maker_taker_prediction", "fee_calculation",
                              "market_impact_calculation", "slippage_estimation">>,
                  slippage |-> slippage,
                  fees |-> fees,
                  market_impact |-> market_impact,
                  maker_taker |-> maker_taker,
                  net_cost |->
                      [value |-> net_cost_value,
                       bps |-> IF RLess(Zero, price)
                               THEN RMul(NumpyDiv(net_cost_value, notional), R(10000))
                               ELSE Zero,
                       percent |-> IF RLess(Zero, price)
                                   THEN RMul(NumpyDiv(net_cost_value, notional), R(100))
                                   ELSE Zero],
                  price |-> price,
                  spread_bps |-> spr_bps]

\* ---------------------------------------------------- ConnectionManager
\* check_connection that looks at the VPN before the internet.
CheckConnectionVpnFirst(internet, vpn) ==
    IF ~vpn THEN "VPN Not Detected"
    ELSE IF ~internet THEN "No Internet Connection"
    ELSE "VPN Connected"

\* check_connection: the status computed from the two probes.
CheckConnection(internet, vpn) ==
    IF ~internet THEN "No Internet Connection"
    ELSE IF ~vpn THEN "VPN Not Detected"
    ELSE "VPN Connected"

\* The ceiling test of handle_connection_failure, as a refusal one failure
\* early.
CeilingExceededAtMax(n) == n >= max_reconnect_attempts

\* The ceiling test of handle_connection_failure.
CeilingExceeded(n) == n > max_reconnect_attempts

\* A wait: the call, its seconds, and whether it blocks the thread (and with
\* it the thread's event loop) rather than yielding to the loop.
Wait(call, seconds, blocking) ==
    [call |-> call, seconds |-> seconds, blocking |-> blocking]

\* handle_connection_failure on a manager whose counter is n: the counter
\* and status it leaves, and whether it permits another attempt (its
\* return value).  The manager passes its new status to its status callback
\* and, before it permits an attempt, waits in time.sleep (waits).
HandleConnectionFailure(n) ==
    IF CeilingExceeded(n + 1)
    THEN [attempts |-> n + 1, status |-> "Reconnection Failed", permitted |-> FALSE,
          waits |-> <<>>]
    ELSE [attempts |-> n + 1, status |-> "Reconnecting (n/max)", permitted |-> TRUE,
          waits |-> <<Wait("time.sleep", reconnect_delay, TRUE)>>]

\* reset_reconnect_attempts that leaves the counter as it is.
KeepReconnectAttempts(n) == n

\* reset_reconnect_attempts: the counter afterwards.
ResetReconnectAttempts(n) == 0

\* ------------------------------------------------------ WebSocketClient
\* A token passed to the client's status_callback (and by it, through
\* TradeSimulator.on_connection_status_change, to the external callback),
\* with the value n of the client's reconnect counter at that moment.
Tok(t, n) == [tok |-> t, n |-> n]

Report(c, toks) == [tokens EXCEPT ![c] = toks]

\* A new client whose manager starts from the counter of the client before.
NewClientStale(c) ==
    [running |-> FALSE, attempts |-> attempts[c - 1]]

\* WebSocketClient.__init__ with its own ConnectionManager.__init__.
NewClient(c) ==
    [running |-> FALSE, attempts |-> 0]

Returned(c) == pc[c] \in {"nointernet", "failed", "stopped"}

Init ==
    /\ nClients = 1
    /\ pc = [c \in Clients |-> IF c = 1 THEN "created" ELSE "none"]
    /\ running = [c \in Clients |-> FALSE]
    /\ stopped = [c \in Clients |-> FALSE]
    /\ attempts = [c \in 0..MaxClients |-> 0]
    /\ fails = [c \in Clients |-> 0]
    /\ msg = [c \in Clients |-> NoFrame]
    /\ called = [c \in Clients |-> 0]
    /\ orderbook_data = [k \in Keys |-> NoSnapshot]
    /\ tokens = [c \in 0..MaxClients |-> <<>>]
    /\ last = NoSnapshot
    /\ request = NoRequest
    /\ result = NoResult
    /\ samples = [m \in Metrics |-> 0]
    /\ metrics = [m \in Metrics |-> <<>>]
    /\ recorded = [m \in Metrics |-> <<>>]
    /\ connection_status = "Disconnected"
    /\ is_internet_connected = FALSE
    /\ is_vpn_active = FALSE
    /\ vpn_override = "None"
    /\ refused = FALSE

\* connect() that returns at its start for nothing.
NeverHaltsAtStart(internet, vpn) == FALSE

\* connect() that returns at its start also without a VPN.
HaltsWithoutVpn(internet, vpn) == ~internet \/ ~vpn

\* connect(), line 215: it returns at its start.
HaltsAtStart(internet, vpn) == ~internet

\* connect(), lines 210-227: running is set, the manager is consulted.
ConnectStart(c) ==
    /\ pc[c] = "created"
    /\ \E internet \in BOOLEAN, vpn \in BOOLEAN :
        LET status == CheckConnection(internet, vpn) IN
        /\ running' = [running EXCEPT ![c] = TRUE]
        /\ IF HaltsAtStart(internet, vpn)
           THEN /\ tokens' = Report(c, <<Tok(status, attempts[c]),
                                         Tok("No Internet Connection", attempts[c])>>)
                /\ pc' = [pc EXCEPT ![c] = "nointernet"]
           ELSE /\ tokens' = Report(c,
                        IF ~vpn THEN <<Tok(status, attempts[c]),
                                       Tok("VPN Not Detected", attempts[c])>>
                        ELSE <<Tok(status, attempts[c])>>)
                /\ pc' = [pc EXCEPT ![c] = "loop"]
    /\ UNCHANGED <<nClients, stopped, attempts, fails, msg, called, orderbook_data>>

\* connect(), lines 229-235: the outer loop test, then the attempt begins.
ConnectLoop(c) ==
    /\ pc[c] = "loop"
    /\ IF running[c]
       THEN /\ tokens' = Report(c, <<Tok("Connecting...", attempts[c])>>)
            /\ pc' = [pc EXCEPT ![c] = "connecting"]
       ELSE /\ tokens' = tokens
            /\ pc' = [pc EXCEPT ![c] = "stopped"]
    /\ UNCHANGED <<nClients, running, stopped, attempts, fails, msg,
                   called, orderbook_data>>

\* connect(), lines 235-244: websockets.connect succeeded.
ConnectOpen(c) ==
    /\ pc[c] = "connecting"
    /\ attempts' = [attempts EXCEPT ![c] = ResetReconnectAttempts(@)]
    /\ fails' = [fails EXCEPT ![c] = 0]
    /\ tokens' = Report(c, <<Tok("Connected", attempts'[c])>>)
    /\ pc' = [pc EXCEPT ![c] = "inner"]
    /\ UNCHANGED <<nClients, running, stopped, msg, called, orderbook_data>>

\* connect(), lines 269-281: the handler of an exception raised in the try
\* block, with the manager's handle_connection_failure.
ExceptBlock(c) ==
    LET h == HandleConnectionFailure(attempts[c]) IN
    /\ attempts' = [attempts EXCEPT ![c] = h.attempts]
    /\ fails' = [fails EXCEPT ![c] = @ + 1]
    /\ IF h.permitted
       THEN /\ tokens' = Report(c, <<Tok("Connection Error", attempts[c]),
                                     Tok(h.status, h.attempts)>>)
            /\ running' = running
            /\ pc' = [pc EXCEPT ![c] = "backoff"]
       ELSE /\ tokens' = Report(c, <<Tok("Connection Error", attempts[c]),
                                     Tok(h.status, h.attempts),
                                     Tok("Reconnection Failed", h.attempts)>>)
            /\ running' = [running EXCEPT ![c] = FALSE]
            /\ pc' = [pc EXCEPT ![c] = "failed"]

\* websockets.connect raised.
ConnectError(c) ==
    /\ pc[c] = "connecting"
    /\ ExceptBlock(c)
    /\ UNCHANGED <<nClients, stopped, msg, called,
                   orderbook_data>>

\* connect(), line 246: the receive loop's test; leaving the loop leaves the
\* `async with` block, which closes the connection.
ReceiveLoop(c) ==
    /\ pc[c] = "inner"
    /\ pc' = [pc EXCEPT ![c] = IF running[c] THEN "recv" ELSE "backoff"]
    /\ msg' = [msg EXCEPT ![c] = NoFrame]
    /\ called' = [called EXCEPT ![c] = 0]
    /\ UNCHANGED <<nClients, running, stopped, attempts, fails,
                   orderbook_data, tokens>>

\* connect(), lines 248-250: recv() returns the feed's next frame.
RecvMessage(c) ==
    /\ pc[c] = "recv"
    /\ \E f \in FrameShapes : msg' = [msg EXCEPT ![c] = f]
    /\ pc' = [pc EXCEPT ![c] = "process"]
    /\ UNCHANGED <<nClients, running, stopped, attempts, fails,
                   called, orderbook_data, tokens>>

\* connect(), lines 263-267: recv() raised ConnectionClosed.
RecvClosed(c) ==
    /\ pc[c] = "recv"
    /\ tokens' = Report(c, <<Tok("Connection Closed", attempts[c])>>)
    /\ pc' = [pc EXCEPT ![c] = "backoff"]
    /\ UNCHANGED <<nClients, running, stopped, attempts, fails, msg,
                   called, orderbook_data>>

\* recv() raised another exception: it leaves the `async with` block and
\* reaches the handler of the outer try.
RecvError(c) ==
    /\ pc[c] = "recv"
    /\ ExceptBlock(c)
    /\ UNCHANGED <<nClients, stopped, msg, called,
                   orderbook_data>>

\* _process_message without its handler: it returns only when nothing raised.
ReturnsUnlessRaised(f, raises) == f.json /\ ~ConstructorRaises(f) /\ ~raises

\* _process_message returns to connect() rather than raising: its
\* `except Exception` catches whatever json.loads, OrderbookData() and the
\* callback raise.
ProcessMessageReturns(f, raises) == TRUE

\* connect(), lines 253-261 with _process_message: the frame is parsed, the
\* snapshot built and passed to the callback; `raises` is whether the
\* callback raises (after TradeSimulator.on_orderbook_update's cache write).
ProcessMessage(c) ==
    /\ pc[c] = "process"
    /\ \E raises \in BOOLEAN :
        LET f == msg[c]
            built == f.json /\ ~ConstructorRaises(f)
        IN
        /\ IF built
           THEN /\ called' = [called EXCEPT ![c] = @ + 1]
                /\ orderbook_data' = OnOrderbookUpdate(orderbook_data, OrderbookData(f))
           ELSE UNCHANGED <<called, orderbook_data>>
        /\ IF ProcessMessageReturns(f, raises)
           THEN /\ pc' = [pc EXCEPT ![c] = "inner"]
                /\ UNCHANGED <<running, attempts, fails, tokens>>
           ELSE ExceptBlock(c)
    /\ UNCHANGED <<nClients, stopped, msg>>

\* connect(), lines 283-288: the wait before the next attempt.
Backoff(c) ==
    /\ pc[c] = "backoff"
    /\ tokens' = IF running[c]
                  THEN Report(c, <<Tok("Reconnecting...", attempts[c])>>)
                  ELSE tokens
    /\ pc' = [pc EXCEPT ![c] = "loop"]
    /\ UNCHANGED <<nClients, running, stopped, attempts, fails, msg,
                   called, orderbook_data>>

\* ------------------------------------------------------ TradeSimulator
\* reconnect(): start_websocket() stops the client registered under the key
\* and registers and starts a new one; then "Reconnecting..." is reported.
Reconnect ==
    /\ nClients < MaxClients
    /\ LET old == nClients
           new == nClients + 1
           obj == NewClient(new)
       IN
       /\ nClients' = new
       /\ running' = [running EXCEPT ![old] = FALSE, ![new] = obj.running]
       /\ stopped' = [stopped EXCEPT ![old] = TRUE]
       /\ attempts' = [attempts EXCEPT ![new] = obj.attempts,
                                       ![0] = ResetReconnectAttempts(@)]
       /\ pc' = [pc EXCEPT ![new] = "created"]
    /\ tokens' = Report(0, <<Tok("Reconnecting...", 0)>>)
    /\ UNCHANGED <<fails, msg, called, orderbook_data>>
    /\ UNCHANGED <<simVars, trackerVars, cmVars>>

\* The steps of client c's own task.
ClientTask(c) ==
    /\ \/ ConnectStart(c)
       \/ ConnectLoop(c)
       \/ ConnectOpen(c)
       \/ ConnectError(c)
       \/ ReceiveLoop(c)
       \/ ProcessMessage(c)
       \/ Backoff(c)
    /\ UNCHANGED <<simVars, trackerVars, cmVars>>

\* What the feed and the transport do to client c.
Feed(c) ==
    /\ \/ RecvMessage(c)
       \/ RecvClosed(c)
       \/ RecvError(c)
    /\ UNCHANGED <<simVars, trackerVars, cmVars>>

Next ==
    \/ \E c \in Clients : ClientTask(c)
    \/ \E c \in Clients : Feed(c)
    \/ Reconnect

Spec == Init /\ [][Next]_vars

\* ------------------------------------------------ the cost-estimation path
\* The frames the feed sends in the runs of the cost-estimation path: each
\* has every field of the schema and numeric ladders; one has an empty ask
\* side, one names the instrument as the endpoint's path does.
SimFrames ==
    { GoodFrame,
      [GoodFrame EXCEPT !.timestamp = 2, !.asks = << <<103, 1>> >>,
                        !.bids = << <<101, 1>> >>],
      [GoodFrame EXCEPT !.asks = <<>>],
      [GoodFrame EXCEPT !.symbol = "BTC-USDT-SWAP"] }

\* The streaming client started for OKX/BTC-USDT receives a frame and
\* _process_message passes its snapshot to on_orderbook_update.
DeliverFrame ==
    /\ \E f \in SimFrames :
        /\ f.json /\ ~ConstructorRaises(f)
        /\ last' = OrderbookData(f)
        /\ orderbook_data' = OnOrderbookUpdate(orderbook_data, OrderbookData(f))
    /\ UNCHANGED <<request, result, samples>>
    /\ UNCHANGED <<streamVars, trackerVars, cmVars>>

\* TradeSimulator.simulate_trade called by a consumer of the simulator.
SimulateTradeCall ==
    /\ samples["maker_taker_prediction"] < MaxCalls
    /\ \E params \in Requests :
        LET r == SimulateTrade(orderbook_data, params) IN
        /\ request' = params
        /\ result' = r
        /\ samples' = RecordAll(samples, r.timed)
    /\ UNCHANGED <<last, orderbook_data>>
    /\ UNCHANGED <<streamVars, trackerVars, cmVars>>

\* SimulatorApp._simulate_trade_with_callback, the callback being
\* TradeSimulator.simulate_trade: the call is timed and the sample recorded
\* when the callback returns.
SimulateTradeWithCallback ==
    /\ samples["maker_taker_prediction"] < MaxCalls
    /\ \E params \in Requests :
        LET r == SimulateTrade(orderbook_data, params) IN
        /\ request' = params
        /\ result' = r
        /\ samples' = IF r.raised = "None"
                      THEN Record(RecordAll(samples, r.timed), "trade_simulation")
                      ELSE RecordAll(samples, r.timed)
    /\ UNCHANGED <<last, orderbook_data>>
    /\ UNCHANGED <<streamVars, trackerVars, cmVars>>

SimNext ==
    \/ DeliverFrame
    \/ SimulateTradeCall
    \/ SimulateTradeWithCallback

SimSpec == Init /\ [][SimNext]_vars

\* A step in which simulate_trade is called: its first model call,
\* predict_maker_taker, is timed once in every call.
SimulateStep ==
    samples'["maker_taker_prediction"] = samples["maker_taker_prediction"] + 1

\* --------------------------------------------- a ConnectionManager alone
\* _check_vpn_connection: the override, else no VPN without internet (a
\* second reachability probe), else what the detection finds.
CheckVpnConnection(override, internet, detected) ==
    IF override # "None" THEN override = "True"
    ELSE IF ~internet THEN FALSE
    ELSE detected

\* check_connection on the manager of client 1, with the given override.
CheckConnectionWith(override) ==
    \E internet \in BOOLEAN, internet2 \in BOOLEAN, detected \in BOOLEAN :
        LET vpn == CheckVpnConnection(override, internet2, detected)
            status == CheckConnection(internet, vpn)
        IN
        /\ is_internet_connected' = internet
        /\ is_vpn_active' = vpn
        /\ connection_status' = status
        /\ tokens' = Report(1, <<Tok(status, attempts[1])>>)

\* _monitor_connection: the background thread's periodic check.
MonitorConnection ==
    /\ CheckConnectionWith(vpn_override)
    /\ UNCHANGED <<vpn_override, refused, attempts>>
    /\ UNCHANGED <<nClients, pc, running, stopped, fails, msg, called>>
    /\ UNCHANGED <<orderbook_data, simVars, trackerVars>>

\* set_vpn_override
SetVpnOverride ==
    /\ \E o \in {"None", "True", "False"} :
        /\ vpn_override' = o
        /\ CheckConnectionWith(o)
    /\ UNCHANGED <<refused, attempts>>
    /\ UNCHANGED <<nClients, pc, running, stopped, fails, msg, called>>
    /\ UNCHANGED <<orderbook_data, simVars, trackerVars>>

\* handle_connection_failure called by the client's failure path.
HandleFailure ==
    /\ attempts[1] < MaxFailures
    /\ LET h == HandleConnectionFailure(attempts[1]) IN
       /\ attempts' = [attempts EXCEPT ![1] = h.attempts]
       /\ connection_status' = h.status
       /\ tokens' = Report(1, <<Tok(h.status, h.attempts)>>)
       /\ refused' = (refused \/ ~h.permitted)
    /\ UNCHANGED <<is_internet_connected, is_vpn_active, vpn_override>>
    /\ UNCHANGED <<nClients, pc, running, stopped, fails, msg, called>>
    /\ UNCHANGED <<orderbook_data, simVars, trackerVars>>

\* reset_reconnect_attempts, also as manual_reconnect calls it (the
\* client's reconnect callback does nothing).
ManualReset ==
    /\ attempts' = [attempts EXCEPT ![1] = ResetReconnectAttempts(@)]
    /\ refused' = FALSE
    /\ UNCHANGED <<connection_status, is_internet_connected, is_vpn_active,
                   vpn_override, tokens>>
    /\ UNCHANGED <<nClients, pc, running, stopped, fails, msg, called>>
    /\ UNCHANGED <<orderbook_data, simVars, trackerVars>>

ManagerNext ==
    \/ MonitorConnection
    \/ SetVpnOverride
    \/ HandleFailure
    \/ ManualReset

ManagerSpec == Init /\ [][ManagerNext]_vars

\* ------------------------------------------------ one OrderbookData alone
\* The ladders of the frames: up to MaxLevels levels of distinct price, in
\* any order, each with price > 0 and quantity > 0 as the data model of the
\* feed has them.
Ladders(prices) ==
    LET levels == prices \X {1, 2}
        rows == UNION {[1..n -> levels] : n \in 0..MaxLevels}
    IN  {l \in rows : \A i, j \in DOMAIN l : i # j => l[i][1] # l[j][1]}

AskPrices == {100, 101, 102}

BidPrices == {98, 99, 101}

\* OrderbookData.__init__ on a frame the client received.
BuildSnapshot ==
    /\ last = NoSnapshot
    /\ \E asks \in Ladders(AskPrices), bids \in Ladders(BidPrices) :
        LET f == [GoodFrame EXCEPT !.asks = asks, !.bids = bids] IN
        /\ msg' = [msg EXCEPT ![1] = f]
        /\ last' = OrderbookData(f)
    /\ UNCHANGED <<request, result, samples, orderbook_data>>
    /\ UNCHANGED <<nClients, pc, running, stopped, attempts, fails, called, tokens>>
    /\ UNCHANGED <<trackerVars, cmVars>>

\* The properties of the snapshot are read, and get_price_for_quantity is
\* called on it for a quantity and for a quantity not below it.
QuerySnapshot ==
    /\ last # NoSnapshot
    /\ result = NoResult
    /\ \E q1 \in 0..MaxQuantity, q2 \in 0..MaxQuantity, side \in {"buy", "sell"} :
        /\ q1 <= q2
        /\ request' = [quantity |-> q1, larger |-> q2, side |-> side]
        /\ result' = [mid_price |-> mid_price(last), spread |-> spread(last),
                      spread_bps |-> spread_bps(last),
                      price |-> GetPriceForQuantity(last, q1, side),
                      larger |-> GetPriceForQuantity(last, q2, side)]
    /\ UNCHANGED <<last, samples, orderbook_data>>
    /\ UNCHANGED <<streamVars, trackerVars, cmVars>>

BookNext ==
    \/ BuildSnapshot
    \/ QuerySnapshot

BookSpec == Init /\ [][BookNext]_vars

\* The side of the snapshot that get_price_for_quantity walks.
SideOf(ob, side) == IF side = "buy" THEN ob.asks ELSE ob.bids

\* The notional of filling q from the head of a ladder, level by level.
RECURSIVE WalkNotional(_, _)
WalkNotional(df, q) ==
    IF df = <<>> \/ q <= 0 THEN 0
    ELSE LET taken == IF q < Head(df)[2] THEN q ELSE Head(df)[2]
         IN  taken * Head(df)[1] + WalkNotional(Tail(df), q - taken)

\* The lowest and the highest price among the levels of a raw ladder.
LowestPrice(levels) ==
    CHOOSE p \in {levels[i][1] : i \in DOMAIN levels} :
        \A i \in DOMAIN levels : p <= levels[i][1]

HighestPrice(levels) ==
    CHOOSE p \in {levels[i][1] : i \in DOMAIN levels} :
        \A i \in DOMAIN levels : p >= levels[i][1]

\* ------------------------------------------------- the fee model alone
\* The inputs of calculate_fee: tiers of the table and tiers outside it.
FeeInputs ==
    [quantity : {Zero, R(1), Rat(5, 2)}, price : {Zero, R(100), Rat(199, 2)},
     fee_tier : {"VIP0", "VIP3", "VIP5", "VIP9", ""},
     maker_proportion : {Zero, Rat(1, 4), Rat(1, 2), R(1)}]

\* A call of calculate_fee, timed by its decorator.
FeeCall ==
    /\ samples["fee_calculation"] < MaxCalls
    /\ \E i \in FeeInputs :
        /\ request' = i
        /\ result' = CalculateFee(i.quantity, i.price, i.fee_tier,
                                  i.maker_proportion)
    /\ samples' = Record(samples, "fee_calculation")
    /\ UNCHANGED <<last, orderbook_data>>
    /\ UNCHANGED <<streamVars, trackerVars, cmVars>>

FeeNext == FeeCall

FeeSpec == Init /\ [][FeeNext]_vars

\* ------------------------------------------ the market-impact model alone
\* The inputs of calculate_market_impact and a factor k for the quantity.
ImpactInputs ==
    [quantity : {Zero, R(1), R(100)}, k : {Zero, Rat(1, 2), R(2), R(3)},
     price : {Zero, R(100), Rat(199, 2), R(DefaultPrice)},
     market_volume : {R(avg_daily_volume), R(avg_daily_volume \div 2)},
     volatility : {Rat(3, 10), Rat(2, 5)}]

\* calculate_market_impact called for a quantity and for k times the
\* quantity, everything else the same; each call that returns is timed.
ImpactCalls ==
    /\ samples["market_impact_calculation"] < MaxCalls
    /\ \E i \in ImpactInputs :
        /\ request' = i
        /\ IF MarketImpactRaises(i.price)
           THEN /\ result' = [raised |-> "ZeroDivisionError"]
                /\ samples' = samples
           ELSE /\ result' =
                      [raised |-> "None",
                       base |-> CalculateMarketImpact(i.quantity, i.price,
                                    i.market_volume, i.volatility),
                       scaled |-> CalculateMarketImpact(RMul(i.k, i.quantity),
                                    i.price, i.market_volume, i.volatility)]
                /\ samples' = RecordAll(samples, <<"market_impact_calculation",
                                                   "market_impact_calculation">>)
    /\ UNCHANGED <<last, orderbook_data>>
    /\ UNCHANGED <<streamVars, trackerVars, cmVars>>

ImpactNext == ImpactCalls

ImpactSpec == Init /\ [][ImpactNext]_vars

\* ------------------------------------------ one PerformanceTracker alone
\* PerformanceTracker.record that refuses the new value when the window is
\* full.
TrackerRecordKeepOldest(stored, metric_name, value) ==
    IF Len(stored[metric_name]) >= max_samples THEN stored
    ELSE [stored EXCEPT ![metric_name] = Append(@, value)]

\* PerformanceTracker.record: the value is appended and, if the list then
\* exceeds max_samples, its first element is popped.
TrackerRecord(stored, metric_name, value) ==
    LET appended == Append(stored[metric_name], value)
    IN  [stored EXCEPT ![metric_name] =
            IF Len(appended) > max_samples THEN Tail(appended) ELSE appended]

RECURSIVE TotalLength(_, _)
TotalLength(seqs, names) ==
    IF names = {} THEN 0
    ELSE LET m == CHOOSE n \in names : TRUE
         IN  Len(seqs[m]) + TotalLength(seqs, names \ {m})

\* record(metric_name, value) called on the tracker.
RecordSample ==
    /\ TotalLength(recorded, Metrics) < MaxRecords
    /\ \E m \in Metrics, v \in {1, 2} :
        /\ metrics' = TrackerRecord(metrics, m, v)
        /\ recorded' = [recorded EXCEPT ![m] = Append(@, v)]
    /\ UNCHANGED <<orderbook_data, simVars>>
    /\ UNCHANGED <<streamVars, cmVars>>

TrackerNext == RecordSample

TrackerSpec == Init /\ [][TrackerNext]_vars

\* The last n elements of a sequence.
LastN(seq, n) == SubSeq(seq, Len(seq) - n + 1, Len(seq))

\* ------------------------------------------- the maker/taker model alone
\* The inputs of predict_maker_taker: its arguments, whether the model is
\* fitted, and what the fitted classifier would predict.
MakerTakerInputs ==
    [quantity : {R(-100), Zero, R(5), R(100)},
     volatility : {Rat(1, 10), Rat(3, 10), Rat(3, 5)},
     spread_bps : {Zero, R(1), R(30)},
     order_type : {"Market", "MARKET", "mArKeT", "market", "Limit", "limit"},
     is_fitted : BOOLEAN, predicted : {Zero, Rat(1, 2), R(1)}]

\* A call of predict_maker_taker, timed by its decorator.
MakerTakerCall ==
    /\ samples["maker_taker_prediction"] < MaxCalls
    /\ \E i \in MakerTakerInputs :
        /\ request' = i
        /\ result' = PredictMakerTaker(i.quantity, i.volatility, i.spread_bps,
                                       i.order_type, i.is_fitted, i.predicted)
    /\ samples' = Record(samples, "maker_taker_prediction")
    /\ UNCHANGED <<last, orderbook_data>>
    /\ UNCHANGED <<streamVars, trackerVars, cmVars>>

MakerTakerNext == MakerTakerCall

MakerTakerSpec == Init /\ [][MakerTakerNext]_vars

\* The client tasks are scheduled fairly: each thread runs its event loop,
\* websockets.connect returns or raises within its open timeout, and the
\* sleeps end.  Nothing is assumed of the feed: recv() returns or raises
\* only when the feed or the transport makes it.
FairSpec == Spec /\ \A c \in Clients : WF_vars(ClientTask(c))

\* ------------------------------------------------------------- claims
NumberOf(toks, t) == Cardinality({i \in DOMAIN toks : toks[i].tok = t})

Connected(c) == pc[c] \in {"inner", "recv", "process"}

\* C1 as stated: once max_reconnect_attempts consecutive failures have
\* happened the client is Failed, and a Failed client has seen exactly
\* max_reconnect_attempts failures.
C1_FailedAfterCeiling ==
    \A c \in Clients :
        /\ fails[c] >= max_reconnect_attempts => pc[c] = "failed"
        /\ pc[c] = "failed" => fails[c] = max_reconnect_attempts

\* C1 as amended: a client is Failed (connect() has returned, running is
\* false) exactly when max_reconnect_attempts + 1 consecutive failures have
\* happened since its last successful open; it never sees more.
C1_FailedAfterCeilingPlusOne ==
    \A c \in Clients :
        /\ fails[c] <= max_reconnect_attempts + 1
        /\ pc[c] = "failed" <=> fails[c] = max_reconnect_attempts + 1
        /\ pc[c] = "failed" => ~running[c]

C1_Witness ==
    \E c \in Clients :
        pc[c] = "failed" /\ fails[c] = max_reconnect_attempts + 1

\* C2: a client that ends in Failed has passed the token
\* "Reconnection Failed" to its status callback exactly once.
C2_ReconnectionFailedOnce ==
    \A c \in Clients :
        pc[c] = "failed" => NumberOf(tokens[c], "Reconnection Failed") = 1

\* C3: a Failed client stays Failed: it reports nothing more, opens no
\* connection and invokes its callback no more; a client comes into being
\* only by a reconnect() step, and it starts with a reconnect counter of 0
\* and its connect() not yet begun.
C3_FailedIsTerminal ==
    [][\A c \in Clients :
        /\ pc[c] = "failed" =>
              /\ pc'[c] = "failed"
              /\ ~running'[c]
              /\ tokens'[c] = tokens[c]
              /\ called'[c] = called[c]
              /\ attempts'[c] = attempts[c]
        /\ pc[c] = "none" /\ pc'[c] # "none" =>
              /\ nClients' = nClients + 1
              /\ c = nClients'
              /\ tokens'[0] = <<Tok("Reconnecting...", 0)>>
              /\ pc'[c] = "created"
              /\ attempts'[c] = 0
      ]_vars

C3_Witness ==
    \E c \in Clients :
        /\ c < nClients
        /\ pc[c] = "failed"
        /\ pc[c + 1] = "connecting"
        /\ attempts[c + 1] = 0

\* C4: a client on which stop() is called while it waits in recv() (it
\* passed the loop's test, so its running flag was true then, and is false
\* now) eventually returns from connect().
C4_StopLeadsToReturn ==
    \A c \in Clients :
        (stopped[c] /\ ~running[c] /\ pc[c] = "recv") ~> Returned(c)

\* C5: when a client whose connect() has begun has been replaced, its
\* connect() has returned before its successor passes a snapshot to
\* on_orderbook_update.
C5_SingleWriter ==
    \A c, d \in Clients :
        c < d /\ called[d] > 0 /\ pc[c] # "created" => Returned(c)

\* C6: a frame that is not well-formed is never passed to the callback.
C6_MalformedDropped ==
    \A c \in Clients :
        pc[c] = "inner" /\ msg[c] # NoFrame /\ ~WellFormed(msg[c])
            => called[c] = 0

\* C7: the step that processes a frame leaves the client connected at the
\* receive loop's test with its running flag, its reconnect counter and its
\* reported status as they were, and from there a running client goes on to
\* recv().
C7_ProcessingKeepsConnection ==
    [][\A c \in Clients :
        /\ pc[c] = "process" /\ pc'[c] # "process" =>
              /\ pc'[c] = "inner"
              /\ running'[c] = running[c]
              /\ attempts'[c] = attempts[c]
              /\ fails'[c] = fails[c]
              /\ tokens'[c] = tokens[c]
        /\ pc[c] = "inner" /\ pc'[c] # "inner" /\ running[c] => pc'[c] = "recv"
      ]_vars

C7_Witness ==
    \E c \in Clients :
        /\ pc[c] = "inner"
        /\ msg[c] = [GoodFrame EXCEPT !.numeric = FALSE]
        /\ called[c] = 0
        /\ running[c]
        /\ attempts[c] = 0
        /\ tokens[c] = <<Tok("Connected", 0)>>

\* C8: the step that processes a well-formed frame invokes the callback
\* once, with the snapshot built from the frame, before the client returns
\* to the loop's test; the callback is invoked in no other step, and a frame
\* is received only after the pass of the frame before has ended.
C8_OneCallbackPerFrame ==
    [][\A c \in Clients :
        /\ pc[c] = "process" /\ pc'[c] # "process" /\ WellFormed(msg[c]) =>
              /\ called[c] = 0
              /\ called'[c] = 1
              /\ orderbook_data' =
                     OnOrderbookUpdate(orderbook_data, OrderbookData(msg[c]))
              /\ pc'[c] = "inner"
        /\ pc[c] # "process" => called'[c] <= called[c]
        /\ pc[c] # "process" /\ pc'[c] = "process" =>
              /\ pc[c] = "recv"
              /\ called[c] = 0
              /\ msg[c] = NoFrame
      ]_vars

C8_Witness ==
    \E c \in Clients :
        /\ pc[c] = "inner"
        /\ msg[c] = GoodFrame
        /\ called[c] = 1
        /\ orderbook_data[<<"OKX", "BTC-USDT">>] = OrderbookData(GoodFrame)

\* C9: every step in which recv() raises (a closure or an error) or
\* websockets.connect raises increments the reconnect counter by one.
C9_FailureConsultsManager ==
    [][\A c \in Clients :
        pc[c] \in {"recv", "connecting"} /\ pc'[c] \in {"backoff", "failed"}
            => attempts'[c] = attempts[c] + 1
      ]_vars

\* C10: a connected client's reconnect counter is 0, "Connected" is
\* reported with the counter at 0, and the counter is the number of
\* failures since the last successful open.
C10_ConnectedCounterZero ==
    \A c \in Clients :
        /\ Connected(c) => attempts[c] = 0
        /\ \A i \in DOMAIN tokens[c] :
              tokens[c][i].tok = "Connected" => tokens[c][i].n = 0
        /\ attempts[c] = fails[c]

C10_Witness ==
    \E c \in Clients :
        /\ pc[c] = "inner"
        /\ msg[c] = NoFrame
        /\ attempts[c] = 0
        /\ tokens[c] = <<Tok("Connected", 0)>>

\* C11: a client whose connection check at the start of connect() finds no
\* internet reports "No Internet Connection" and returns: it never reports
\* "Connecting...", opens no connection, delivers no snapshot, asks for no
\* reconnection, and any client that leaves the start otherwise did find
\* the internet.
C11_NoInternetHalts ==
    [][\A c \in Clients :
        /\ (pc[c] = "created" /\ pc'[c] # "created")
              => /\ (tokens'[c][1].tok = "No Internet Connection")
                        <=> (pc'[c] = "nointernet")
                 /\ pc'[c] = "nointernet"
                        => /\ tokens'[c][Len(tokens'[c])].tok = "No Internet Connection"
                           /\ NumberOf(tokens'[c], "Connecting...") = 0
        /\ pc[c] = "nointernet"
              => /\ pc'[c] = "nointernet"
                 /\ tokens'[c] = tokens[c]
                 /\ attempts'[c] = attempts[c]
                 /\ fails'[c] = fails[c]
                 /\ called'[c] = called[c]]_vars

\* A client that returned from connect() because there was no internet.
C11_Witness ==
    \E c \in Clients :
        /\ pc[c] = "nointernet"
        /\ tokens[c] = <<Tok("No Internet Connection", 0),
                         Tok("No Internet Connection", 0)>>
        /\ called[c] = 0

\* C12: a client whose connection check finds the internet but no VPN
\* reports "VPN Not Detected" and goes on to the connection loop, and from
\* there, unless it is stopped, it reports "Connecting..." and attempts the
\* connection.
C12_VpnAbsenceProceeds ==
    /\ [][\A c \in Clients :
            /\ (pc[c] = "created" /\ pc'[c] # "created"
                    /\ tokens'[c][1].tok = "VPN Not Detected")
                  => /\ pc'[c] = "loop"
                     /\ running'[c]
                     /\ tokens'[c] = <<Tok("VPN Not Detected", attempts[c]),
                                       Tok("VPN Not Detected", attempts[c])>>
            /\ (pc[c] = "loop" /\ running[c] /\ pc'[c] # "loop")
                  => /\ pc'[c] = "connecting"
                     /\ tokens'[c] = <<Tok("Connecting...", attempts[c])>>]_vars
    /\ \A c \in Clients :
          (pc[c] = "loop" /\ running[c]
                /\ NumberOf(tokens[c], "VPN Not Detected") > 0)
             ~> (pc[c] = "connecting" \/ ~running[c])

\* A running client at the head of the connection loop, the warning given.
C12_Witness ==
    \E c \in Clients :
        /\ pc[c] = "loop"
        /\ running[c]
        /\ tokens[c] = <<Tok("VPN Not Detected", 0), Tok("VPN Not Detected", 0)>>

\* C13: the cache holds for each key the snapshot most recently delivered
\* for that key and nothing else: an entry changes only when a snapshot of
\* its own key is delivered, it then is that snapshot, and every other
\* entry stays as it was.
C13_CacheLatestPerKey ==
    /\ [](\A k \in Keys :
            orderbook_data[k] # NoSnapshot => KeyOf(orderbook_data[k]) = k)
    /\ [][/\ \A c \in Clients :
                called'[c] = called[c] + 1
                   => LET ob == OrderbookData(msg[c]) IN
                      \A k \in Keys :
                         orderbook_data'[k] =
                            IF k = KeyOf(ob) THEN ob ELSE orderbook_data[k]
          /\ (\A c \in Clients : called'[c] = called[c])
                => orderbook_data' = orderbook_data]_vars

\* A later client has delivered a snapshot for a key, the cache has it, and
\* another key's entry is still in the cache.
C13_Witness ==
    \E c \in Clients :
        /\ c > 1
        /\ called[c] = 1
        /\ pc[c] = "inner"
        /\ orderbook_data[KeyOf(OrderbookData(msg[c]))] = OrderbookData(msg[c])
        /\ \E k \in Keys :
              /\ k # KeyOf(OrderbookData(msg[c]))
              /\ orderbook_data[k] # NoSnapshot

\* C14: once the client streaming OKX/BTC-USDT has delivered a well-formed
\* frame with both sides, simulate_trade for OKX/BTC-USDT returns the
\* mid_price and spread_bps of the last frame that client delivered.
C14_SimulateUsesLatest ==
    [][(/\ SimulateStep
        /\ request'.exchange = "OKX" /\ request'.asset = "BTC-USDT"
        /\ last # NoSnapshot
        /\ mid_price(last) # Zero)
          => /\ result'.raised = "None"
             /\ result'.price = mid_price(last)
             /\ result'.spread_bps = spread_bps(last)]_vars

\* C15: with no snapshot cached for the requested exchange and asset,
\* simulate_trade returns a result whose price is the default reference
\* price and whose spread_bps is the spread configured for that asset.
C15_DefaultsOfInstrument ==
    [][(SimulateStep
          /\ orderbook_data[<<request'.exchange, request'.asset>>] = NoSnapshot)
          => /\ result'.raised = "None"
             /\ result'.price = R(DefaultPrice)
             /\ result'.spread_bps =
                    DEFAULT_MARKET_PARAMS[request'.asset].avg_spread_bps]_vars

\* C16: simulate_trade returns a result and does not raise, whatever
\* snapshot is cached (one with an empty side included) and for every
\* quantity >= 0.
C16_SimulateNeverRaises ==
    [][SimulateStep => result'.raised = "None"]_vars

\* C17: in every result of simulate_trade, net_cost.value is the sum of the
\* slippage, the total fee and the total market impact of the same result,
\* and these three are what the models give for the request's quantity and
\* volatility and the result's price and spread_bps.
C17_NetCostIsSum ==
    [][(SimulateStep /\ result'.raised = "None")
          => LET r == result'
                 quantity == R(request'.quantity)
                 volume == R(DEFAULT_MARKET_PARAMS[request'.asset].avg_daily_volume)
             IN
             /\ r.net_cost.value =
                    RAdd(RAdd(r.slippage.slippage, r.fees.total_fee),
                         r.market_impact.total_impact)
             /\ r.slippage = EstimateSlippage(quantity, r.price,
                                              request'.volatility, r.spread_bps)
             /\ r.fees = CalculateFee(quantity, r.price, request'.fee_tier,
                                      r.maker_taker.maker_proportion)
             /\ r.market_impact = CalculateMarketImpact(quantity, r.price, volume,
                                                        request'.volatility)]_vars

\* A result for 100 units priced from a cached snapshot, each of the three
\* components positive.
C17_Witness ==
    /\ result.raised = "None"
    /\ request.quantity = 100
    /\ last # NoSnapshot
    /\ result.price = mid_price(last)
    /\ RLess(Zero, result.slippage.slippage)
    /\ RLess(Zero, result.fees.total_fee)
    /\ RLess(Zero, result.market_impact.total_impact)
    /\ RLess(result.fees.total_fee, result.net_cost.value)

\* C18: for an order type that is "Market" in any letter case,
\* predict_maker_taker returns maker_proportion 0 and taker_proportion 1,
\* whatever the quantity, volatility and spread_bps and whether or not the
\* model is fitted.
C18_MarketOrderIsTaker ==
    (samples["maker_taker_prediction"] > 0
        /\ request.order_type \in {"Market", "MARKET", "mArKeT", "market"})
       => /\ result.maker_proportion = Zero
          /\ result.taker_proportion = R(1)

\* A fitted model whose classifier would predict one half, asked about a
\* "MARKET" order.
C18_Witness ==
    /\ samples["maker_taker_prediction"] > 0
    /\ request.order_type = "MARKET"
    /\ request.is_fitted
    /\ request.predicted = Rat(1, 2)
    /\ request.quantity = R(5)
    /\ result = [maker_proportion |-> Zero, taker_proportion |-> R(1)]

\* C19: every call of simulate_trade has recorded one trade_simulation
\* sample: the samples of that metric are as many as the calls made.
C19_OneSamplePerCall ==
    samples["trade_simulation"] = samples["maker_taker_prediction"]

\* C20: a manager that has refused an attempt keeps the status
\* "Reconnection Failed" and a counter above the ceiling until it is reset
\* by hand.
C20_FailedStatusStays ==
    refused => /\ connection_status = "Reconnection Failed"
               /\ CeilingExceeded(attempts[1] + 1)

\* C21: whenever a manager runs check_connection, the status it sets and
\* reports is "No Internet Connection" if the reachability probe failed
\* (whatever the VPN component or the override), "VPN Not Detected" if the
\* internet is reachable and the VPN component is false, "VPN Connected"
\* only if both hold; and with an override set, the VPN component is the
\* override.
C21_StatusPriority ==
    [][(attempts' = attempts /\ refused' = refused)
          => /\ connection_status' =
                    (IF ~is_internet_connected' THEN "No Internet Connection"
                     ELSE IF ~is_vpn_active' THEN "VPN Not Detected"
                     ELSE "VPN Connected")
             /\ tokens'[1] = <<Tok(connection_status', attempts[1])>>
             /\ vpn_override' # "None"
                    => (is_vpn_active' <=> vpn_override' = "True")]_vars

\* A check that found no internet while the override says the VPN is on.
C21_Witness ==
    /\ vpn_override = "True"
    /\ is_vpn_active
    /\ ~is_internet_connected
    /\ connection_status = "No Internet Connection"
    /\ tokens[1] = <<Tok("No Internet Connection", 0)>>

\* C22: for a snapshot built from a frame with at least one ask and one
\* bid, in whatever order the frame lists them, mid_price is half the sum
\* and spread the difference of the lowest ask price and the highest bid
\* price, and neither is negative when that bid is not above that ask.
C22_MidAndSpread ==
    (last # NoSnapshot /\ "mid_price" \in DOMAIN result
        /\ msg[1].asks # <<>> /\ msg[1].bids # <<>>)
       => LET best_ask == LowestPrice(msg[1].asks)
              best_bid == HighestPrice(msg[1].bids)
          IN  /\ result.mid_price = Rat(best_ask + best_bid, 2)
              /\ result.spread = R(best_ask - best_bid)
              /\ best_bid <= best_ask
                    => /\ ~RLess(result.mid_price, Zero)
                       /\ ~RLess(result.spread, Zero)

\* A frame listing the higher ask and the lower bid first.
C22_Witness ==
    /\ msg[1].asks = << <<102, 1>>, <<100, 2>> >>
    /\ msg[1].bids = << <<98, 1>>, <<99, 2>> >>
    /\ "mid_price" \in DOMAIN result
    /\ result.mid_price = Rat(199, 2)
    /\ result.spread = R(1)

\* C23: for a snapshot with an empty ask side or an empty bid side,
\* mid_price, spread and spread_bps are 0; and spread_bps is 0 whenever
\* mid_price is 0.
C23_EmptySideGivesZero ==
    (last # NoSnapshot /\ "mid_price" \in DOMAIN result)
       => /\ (last.asks = <<>> \/ last.bids = <<>>)
                => /\ result.mid_price = Zero
                   /\ result.spread = Zero
                   /\ result.spread_bps = Zero
          /\ result.mid_price = Zero => result.spread_bps = Zero

\* A snapshot with asks and no bid, its three properties read.
C23_Witness ==
    /\ last.asks = << <<100, 1>>, <<101, 2>> >>
    /\ last.bids = <<>>
    /\ "mid_price" \in DOMAIN result
    /\ result.spread = Zero
    /\ result.spread_bps = Zero

\* C24: for a quantity q with 0 < q <= the total quantity of the side,
\* get_price_for_quantity returns the notional of walking the ladder from
\* its best level up to q, divided by q.
C24_WeightedAveragePrice ==
    (last # NoSnapshot /\ "price" \in DOMAIN result)
       => LET df == SideOf(last, request.side)
              q == request.quantity
          IN  (0 < q /\ q <= CumulativeQuantity(df, Len(df)))
                 => result.price =
                       [outcome |-> "value", price |-> Rat(WalkNotional(df, q), q)]

\* C25: of two quantities q1 <= q2 that the side can fill and for which
\* get_price_for_quantity returns prices, the price for q2 is not below the
\* price for q1 on the ask side and not above it on the bid side.
C25_PriceMonotonic ==
    (last # NoSnapshot /\ "price" \in DOMAIN result)
       => LET df == SideOf(last, request.side)
          IN  (/\ request.larger <= CumulativeQuantity(df, Len(df))
               /\ result.price.outcome = "value"
               /\ result.larger.outcome = "value")
                 => IF request.side = "buy"
                    THEN ~RLess(result.larger.price, result.price.price)
                    ELSE ~RLess(result.price.price, result.larger.price)

\* C26: for a quantity q > 0, get_price_for_quantity returns None exactly
\* when q exceeds the total quantity of the side, and a q equal to the
\* total is filled at a price.
C26_NoneIffInsufficient ==
    (last # NoSnapshot /\ "price" \in DOMAIN result /\ request.quantity > 0)
       => LET df == SideOf(last, request.side)
              total == CumulativeQuantity(df, Len(df))
          IN  /\ result.price.outcome = "None" <=> request.quantity > total
              /\ request.quantity = total => result.price.outcome = "value"

\* C27: for every tier of the table, quantity and price, the fees returned
\* are maker_fee = notional * maker_rate * maker_proportion, taker_fee =
\* notional * taker_rate * (1 - maker_proportion) and their sum total_fee;
\* so total_fee is notional * maker_rate for maker_proportion 1 and
\* notional * taker_rate for maker_proportion 0; effective_rate is 0 for
\* notional 0.
C27_FeeFormula ==
    (samples["fee_calculation"] > 0 /\ request.fee_tier \in DOMAIN OKX_FEE_TIERS)
       => LET rates == OKX_FEE_TIERS[request.fee_tier]
              notional == RMul(request.quantity, request.price)
          IN  /\ result.notional = notional
              /\ result.maker_fee =
                    RMul(RMul(notional, rates.maker), request.maker_proportion)
              /\ result.taker_fee =
                    RMul(RMul(notional, rates.taker),
                         RSub(R(1), request.maker_proportion))
              /\ result.total_fee = RAdd(result.maker_fee, result.taker_fee)
              /\ request.maker_proportion = R(1)
                    => result.total_fee = RMul(notional, rates.maker)
              /\ request.maker_proportion = Zero
                    => result.total_fee = RMul(notional, rates.taker)
              /\ notional = Zero => result.effective_rate = Zero

\* A fee at tier VIP3 for a quarter filled as maker.
C27_Witness ==
    /\ samples["fee_calculation"] > 0
    /\ request = [quantity |-> Rat(5, 2), price |-> R(100), fee_tier |-> "VIP3",
                  maker_proportion |-> Rat(1, 4)]
    /\ result.maker_fee = Rat(1, 32)
    /\ result.taker_fee = Rat(21, 160)

\* C28: for a tier that is not in the table, calculate_fee returns what it
\* returns for VIP0 and the same quantity, price and maker proportion.
C28_UnknownTierIsVIP0 ==
    (samples["fee_calculation"] > 0 /\ request.fee_tier \notin DOMAIN OKX_FEE_TIERS)
       => LET rates == OKX_FEE_TIERS["VIP0"]
              notional == RMul(request.quantity, request.price)
          IN  /\ result.maker_fee =
                    RMul(RMul(notional, rates.maker), request.maker_proportion)
              /\ result.taker_fee =
                    RMul(RMul(notional, rates.taker),
                         RSub(R(1), request.maker_proportion))
              /\ result = CalculateFee(request.quantity, request.price, "VIP0",
                                       request.maker_proportion)

\* A fee asked for the unknown tier VIP9, all of it taken.
C28_Witness ==
    /\ samples["fee_calculation"] > 0
    /\ request = [quantity |-> Rat(5, 2), price |-> R(100), fee_tier |-> "VIP9",
                  maker_proportion |-> Zero]
    /\ result.total_fee = Rat(1, 4)

\* C29: in every result of calculate_market_impact total_impact is the sum
\* of temporary_impact and permanent_impact, and with the quantity
\* multiplied by k and everything else the same each of the three (and the
\* participation rate) is multiplied by k.
C29_ImpactSumAndLinear ==
    "base" \in DOMAIN result
       => /\ \A r \in {result.base, result.scaled} :
                r.total_impact = RAdd(r.temporary_impact, r.permanent_impact)
          /\ result.scaled.participation_rate =
                RMul(request.k, result.base.participation_rate)
          /\ result.scaled.temporary_impact =
                RMul(request.k, result.base.temporary_impact)
          /\ result.scaled.permanent_impact =
                RMul(request.k, result.base.permanent_impact)
          /\ result.scaled.total_impact =
                RMul(request.k, result.base.total_impact)

\* 100 units and three times as many at price 100, each impact positive.
C29_Witness ==
    /\ "base" \in DOMAIN result
    /\ request.quantity = R(100) /\ request.k = R(3) /\ request.price = R(100)
    /\ RLess(Zero, result.base.temporary_impact)
    /\ RLess(result.base.temporary_impact, result.base.permanent_impact)
    /\ RLess(result.base.total_impact, result.scaled.total_impact)

\* C30: after any sequence of record calls, what the tracker holds for a
\* metric is at most max_samples values long and is the last
\* min(n, max_samples) of the n values recorded for that metric, in the
\* order of recording; the values recorded for another metric play no part.
C30_BoundedFifoWindow ==
    \A m \in Metrics :
        LET n == Len(recorded[m])
        IN  /\ Len(metrics[m]) <= max_samples
            /\ metrics[m] = LastN(recorded[m],
                                  IF n < max_samples THEN n ELSE max_samples)

\* A metric whose oldest value has been evicted, another one holding its
\* single value.
C30_Witness ==
    /\ Len(recorded["fee_calculation"]) = max_samples + 1
    /\ recorded["fee_calculation"][1] = 1
    /\ metrics["fee_calculation"] = Tail(recorded["fee_calculation"])
    /\ metrics["fee_calculation"][max_samples] = 2
    /\ metrics["trade_simulation"] = <<1>>


\* C31: simulate_trade calls the models in the order maker/taker, fee,
\* market impact, slippage (a call that raises has called a prefix of that
\* order); the fees of a result are calculate_fee of the maker proportion the
\* result reports, and for a "Market" order the maker fee is 0 and the total
\* fee is notional * taker rate.
C31_ModelOrderAndMakerShare ==
    [][SimulateStep
          => LET r == result'
                 quantity == R(request'.quantity)
             IN
             /\ Len(r.timed) <= Len(ModelOrder)
             /\ r.timed = SubSeq(ModelOrder, 1, Len(r.timed))
             /\ r.raised = "None"
                   => /\ r.timed = ModelOrder
                      /\ r.fees = CalculateFee(quantity, r.price, request'.fee_tier,
                                               r.maker_taker.maker_proportion)
                      /\ request'.order_type = "Market"
                            => /\ r.maker_taker.maker_proportion = Zero
                               /\ r.fees.maker_fee = Zero
                               /\ r.fees.total_fee =
                                      RMul(RMul(quantity, r.price),
                                           OKX_FEE_TIERS[FeeTierOf(request'.fee_tier)].taker)]_vars

\* A limit order of 100 units whose predicted maker proportion is positive
\* and whose maker fee is positive, all four models timed.
C31_Witness ==
    /\ result.raised = "None"
    /\ request.order_type = "limit"
    /\ request.quantity = 100
    /\ request.fee_tier = "VIP0"
    /\ result.timed = ModelOrder
    /\ RLess(Zero, result.maker_taker.maker_proportion)
    /\ RLess(Zero, result.fees.maker_fee)


\* ------------------------------------------- snapshots as they are delivered
\* get_liquidity_at_level: the notional of the first `level` rows of a side,
\* of the whole side when it has fewer rows.
GetLiquidityAtLevel(ob, level) ==
    LET rows(df) == IF Len(df) >= level THEN level ELSE Len(df)
    IN  <<NotionalSum(ob.asks, rows(ob.asks)), NotionalSum(ob.bids, rows(ob.bids))>>

\* The ladders the feed's frames may carry: numeric strings, among them "0"
\* as a price or as a quantity (OrderbookData takes the lists as they are).
FeedLadders(prices) ==
    LET levels == (prices \cup {0}) \X {0, 1}
        rows == UNION {[1..n -> levels] : n \in 0..2}
    IN  {l \in rows : \A i, j \in DOMAIN l : i # j => l[i][1] # l[j][1]}

\* connect() receives a frame and _process_message builds its snapshot and
\* passes it to the callback, TradeSimulator.on_orderbook_update.
ProcessFrame ==
    /\ result = NoResult
    /\ \E asks \in FeedLadders({100, 101}), bids \in FeedLadders({98, 99}) :
        LET f == [GoodFrame EXCEPT !.asks = asks, !.bids = bids] IN
        /\ msg' = [msg EXCEPT ![1] = f]
        /\ last' = OrderbookData(f)
        /\ orderbook_data' = OnOrderbookUpdate(orderbook_data, OrderbookData(f))
    /\ UNCHANGED <<request, result, samples>>
    /\ UNCHANGED <<nClients, pc, running, stopped, attempts, fails, called, tokens>>
    /\ UNCHANGED <<trackerVars, cmVars>>

\* The operations of OrderbookData on the cached snapshot: they read the
\* ladders and return numbers.
ReadSnapshot ==
    /\ orderbook_data[KeyOf(last)] # NoSnapshot
    /\ result = NoResult
    /\ \E q \in 0..2, side \in {"buy", "sell"}, level \in 1..2 :
        LET ob == orderbook_data[KeyOf(last)] IN
        /\ request' = [quantity |-> q, side |-> side, level |-> level]
        /\ result' = [mid_price |-> mid_price(ob), spread |-> spread(ob),
                      spread_bps |-> spread_bps(ob),
                      liquidity |-> GetLiquidityAtLevel(ob, level),
                      price |-> GetPriceForQuantity(ob, q, side)]
    /\ UNCHANGED <<last, samples, orderbook_data>>
    /\ UNCHANGED <<streamVars, trackerVars, cmVars>>

LadderNext ==
    \/ ProcessFrame
    \/ ReadSnapshot

LadderSpec == Init /\ [][LadderNext]_vars

\* The ladder invariant of a snapshot.
LadderInvariant(ob) ==
    /\ \A i \in 1..(Len(ob.asks) - 1) : ob.asks[i][1] <= ob.asks[i + 1][1]
    /\ \A i \in 1..(Len(ob.bids) - 1) : ob.bids[i][1] >= ob.bids[i + 1][1]
    /\ \A i \in DOMAIN ob.asks : ob.asks[i][1] > 0 /\ ob.asks[i][2] > 0
    /\ \A i \in DOMAIN ob.bids : ob.bids[i][1] > 0 /\ ob.bids[i][2] > 0

\* C32: every snapshot passed to the callback or held in the cache has its
\* asks ascending and its bids descending by price and every entry with
\* price > 0 and quantity > 0.
C32_LadderInvariant ==
    /\ LadderInvariant(last)
    /\ \A k \in Keys : LadderInvariant(orderbook_data[k])


\* C33: every token passed to the status callback, by the client's
\* connect(), by its ConnectionManager or by the TradeSimulator, is one of
\* Connecting, Connected, ConnectionClosed, ConnectionError: <detail>,
\* Reconnecting, ReconnectionFailed, NoInternet, VpnNotDetected, VpnConnected.
C33_TokensOfTheSet ==
    \A c \in 0..MaxClients : \A i \in DOMAIN tokens[c] :
        tokens[c][i].tok \in {"Connecting...", "Connected", "Connection Closed",
                              "Connection Error", "Reconnecting...",
                              "Reconnection Failed", "No Internet Connection",
                              "VPN Not Detected", "VPN Connected"}


\* C34: for an order that is not a market order an unfitted model returns
\* maker_proportion = clamp(0.5 - 0.2*min(1, 2*volatility)
\* - 0.2*min(1, spread_bps/20) - 0.1*min(1, quantity/10), 0, 1); for every
\* input maker_proportion lies in [0, 1] and the two proportions add up to 1.
C34_HeuristicProportion ==
    samples["maker_taker_prediction"] > 0
       => LET i == request
              m == result.maker_proportion
              cap(x) == IF RLess(R(1), x) THEN R(1) ELSE x
              raw == RSub(RSub(RSub(Rat(1, 2),
                                    RMul(Rat(2, 10), cap(RMul(R(2), i.volatility)))),
                               RMul(Rat(2, 10), cap(RDiv(i.spread_bps, R(20))))),
                          RMul(Rat(1, 10), cap(RDiv(i.quantity, R(10)))))
          IN
          /\ (Lower(i.order_type) # "market" /\ ~i.is_fitted)
                => m = IF RLess(raw, Zero) THEN Zero
                       ELSE IF RLess(R(1), raw) THEN R(1) ELSE raw
          /\ ~RLess(m, Zero)
          /\ ~RLess(R(1), m)
          /\ RAdd(m, result.taker_proportion) = R(1)

\* An unfitted model asked about a limit order whose three factors are
\* partly capped: 0.5 - 0.2*1 - 0.2*0.05 - 0.1*0.5 = 0.24.
C34_Witness ==
    /\ samples["maker_taker_prediction"] > 0
    /\ request.order_type = "limit"
    /\ ~request.is_fitted
    /\ request.volatility = Rat(3, 5)
    /\ request.spread_bps = R(1)
    /\ request.quantity = R(5)
    /\ result = [maker_proportion |-> Rat(24, 100), taker_proportion |-> Rat(76, 100)]


\* -------------------------------------------- the statistical models alone
\* SlippageModel.predict: it refuses an unfitted model.
Predict(is_fitted, predicted) ==
    IF ~is_fitted THEN [raised |-> "Model is not fitted yet", value |-> Zero]
    ELSE [raised |-> "None", value |-> predicted]

\* estimate_slippage that hands every model to predict().
NeverHeuristic(is_fitted) == FALSE

\* estimate_slippage, line 66: the test that selects the heuristic.
UsesHeuristic(is_fitted) == ~is_fitted

\* SlippageModel.estimate_slippage on a model that may be fitted; predicted
\* is what the fitted regression returns.
EstimateSlippageOf(is_fitted, predicted, quantity, price, volatility, spr_bps) ==
    IF UsesHeuristic(is_fitted)
    THEN [raised |-> "None",
          estimate |-> EstimateSlippage(quantity, price, volatility, spr_bps)]
    ELSE LET p == Predict(is_fitted, predicted) IN
         [raised |-> p.raised,
          estimate |-> [slippage |-> RMul(RDiv(p.value, R(10000)), price),
                        slippage_bps |-> p.value]]

ModelInputs ==
    [quantity : {Zero, R(5), R(100)}, price : {Zero, R(100)},
     volatility : {Rat(1, 10), Rat(3, 10)}, spread_bps : {Zero, R(1)},
     order_type : {"Market", "limit"}, is_fitted : BOOLEAN,
     predicted : {Rat(1, 2)}]

\* The two statistical models are asked about one order, as simulate_trade
\* asks them.
StatisticalModelsCall ==
    /\ samples["slippage_estimation"] < MaxCalls
    /\ \E i \in ModelInputs :
        /\ request' = i
        /\ result' = [maker_taker |->
                          PredictMakerTaker(i.quantity, i.volatility, i.spread_bps,
                                            i.order_type, i.is_fitted, i.predicted),
                      slippage |->
                          EstimateSlippageOf(i.is_fitted, i.predicted, i.quantity,
                                             i.price, i.volatility, i.spread_bps)]
    /\ samples' = RecordAll(samples, <<"maker_taker_prediction",
                                       "slippage_estimation">>)
    /\ UNCHANGED <<last, orderbook_data>>
    /\ UNCHANGED <<streamVars, trackerVars, cmVars>>

StatisticalNext == StatisticalModelsCall

StatisticalSpec == Init /\ [][StatisticalNext]_vars

\* C35: the unfitted models never fail: estimate_slippage returns
\* slippage_bps = spread_bps/2 + quantity*volatility*0.1 and slippage =
\* slippage_bps/10000*price, predict_maker_taker returns the heuristic
\* proportions (all taker for a market order), and neither ends in
\* 'Model is not fitted yet'.
C35_UnfittedNeverFails ==
    (samples["slippage_estimation"] > 0 /\ ~request.is_fitted)
       => LET i == request
              bps == RAdd(RDiv(i.spread_bps, R(2)),
                          RMul(RMul(i.quantity, i.volatility), Rat(1, 10)))
          IN
          /\ result.slippage.raised = "None"
          /\ result.slippage.estimate.slippage_bps = bps
          /\ result.slippage.estimate.slippage = RMul(RDiv(bps, R(10000)), i.price)
          /\ result.maker_taker =
                 PredictMakerTaker(i.quantity, i.volatility, i.spread_bps,
                                   i.order_type, FALSE, Zero)
          /\ RAdd(result.maker_taker.maker_proportion,
                  result.maker_taker.taker_proportion) = R(1)

\* Unfitted models asked about a limit order of 5 units at price 100,
\* volatility 0.3 and a spread of 1 bps: slippage_bps = 0.5 + 0.15.
C35_Witness ==
    /\ samples["slippage_estimation"] > 0
    /\ ~request.is_fitted
    /\ request.order_type = "limit"
    /\ request.quantity = R(5)
    /\ request.price = R(100)
    /\ request.volatility = Rat(3, 10)
    /\ request.spread_bps = R(1)
    /\ result.slippage.raised = "None"
    /\ result.slippage.estimate.slippage_bps = Rat(65, 100)
    /\ result.slippage.estimate.slippage = Rat(65, 10000)
    /\ RLess(Zero, result.maker_taker.maker_proportion)


\* ------------------------------------------- the managers' monitor threads
\* ConnectionManager._monitor_connection of client c's manager: the daemon
\* thread started by the manager's constructor loops for ever, and each
\* check_connection passes the status to the client's status callback.
MonitorThread(c) ==
    /\ c <= nClients
    /\ \E internet \in BOOLEAN, vpn \in BOOLEAN :
        tokens' = Report(c, <<Tok(CheckConnection(internet, vpn), attempts[c])>>)
    /\ UNCHANGED <<nClients, pc, running, stopped, attempts, fails, msg, called,
                   orderbook_data>>
    /\ UNCHANGED <<simVars, trackerVars, cmVars>>

MonitorNext ==
    \/ Next
    \/ \E c \in Clients : MonitorThread(c)

MonitorSpec == Init /\ [][MonitorNext]_vars

\* C36: once stop() has been called on a client and its connect() has
\* returned, no further token of that client or of its manager's monitor
\* thread reaches the status callback.
C36_StoppedClientIsSilent ==
    [][\A c \in Clients :
          (stopped[c] /\ Returned(c)) => tokens'[c] = tokens[c]]_vars


\* C37: a stop() is never lost: once stop() has been called on a client, no
\* step turns its running flag back to true (also when the stop came before
\* connect() began to run), and it opens no connection afterwards.
C37_StopIsNeverLost ==
    [][\A c \in Clients :
          stopped[c] => /\ running'[c] => running[c]
                        /\ pc'[c] = "connecting" => pc[c] = "connecting"]_vars


\* ------------------------------- simulate_trade beside the writing client
\* simulate_trade that looks the key up again for every property it reads.
CachedNow(orderbook, cache, key) == cache[key]

\* simulate_trade, lines 222-223: both properties are read from the object
\* that the one lookup of line 214 returned.
LookedUp(orderbook, cache, key) == orderbook

\* simulate_trade, lines 212-214, on the thread of the caller: the lookup.
LookupSnapshot ==
    /\ result = NoResult
    /\ samples["trade_simulation"] < MaxCalls
    /\ \E params \in Requests :
        /\ request' = params
        /\ result' = [stage |-> "lookup",
                      orderbook |-> orderbook_data[<<params.exchange, params.asset>>]]
    /\ UNCHANGED <<last, samples, orderbook_data>>
    /\ UNCHANGED <<streamVars, trackerVars, cmVars>>

\* simulate_trade, lines 216-222: the price, the default without a snapshot.
ReadPrice ==
    /\ result # NoResult
    /\ result.stage = "lookup"
    /\ LET ob == LookedUp(result.orderbook, orderbook_data,
                          <<request.exchange, request.asset>>)
       IN  result' = [stage |-> "price", orderbook |-> result.orderbook,
                      price |-> IF result.orderbook = NoSnapshot
                                THEN R(DefaultPrice) ELSE mid_price(ob)]
    /\ UNCHANGED <<last, request, samples, orderbook_data>>
    /\ UNCHANGED <<streamVars, trackerVars, cmVars>>

\* simulate_trade, lines 220-223: the spread in basis points.
ReadSpreadBps ==
    /\ result # NoResult
    /\ result.stage = "price"
    /\ LET ob == LookedUp(result.orderbook, orderbook_data,
                          <<request.exchange, request.asset>>)
       IN  result' = [stage |-> "spread_bps", orderbook |-> result.orderbook,
                      price |-> result.price,
                      spread_bps |-> IF result.orderbook = NoSnapshot
                                     THEN R(DefaultSpreadBps) ELSE spread_bps(ob)]
    /\ UNCHANGED <<last, request, samples, orderbook_data>>
    /\ UNCHANGED <<streamVars, trackerVars, cmVars>>

\* simulate_trade returns; the next request may come.
ReturnResult ==
    /\ result # NoResult
    /\ result.stage = "spread_bps"
    /\ result' = NoResult
    /\ samples' = Record(samples, "trade_simulation")
    /\ UNCHANGED <<last, request, orderbook_data>>
    /\ UNCHANGED <<streamVars, trackerVars, cmVars>>

\* The client's thread writes the cache between any two steps of the reader.
ReaderNext ==
    \/ DeliverFrame
    \/ LookupSnapshot
    \/ ReadPrice
    \/ ReadSpreadBps
    \/ ReturnResult

ReaderSpec == Init /\ [][ReaderNext]_vars

\* C38: the price and the spread_bps of a simulation are the mid_price and
\* the spread_bps of one snapshot, the one cached for the key at the moment
\* of the lookup, whatever the client writes into the cache meanwhile.
C38_OneWholeSnapshot ==
    (result # NoResult /\ result.stage = "spread_bps"
        /\ result.orderbook # NoSnapshot)
       => /\ result.price = mid_price(result.orderbook)
          /\ result.spread_bps = spread_bps(result.orderbook)

\* A simulation that looked up one snapshot and finished reading it after
\* the client had replaced it in the cache by another.
C38_Witness ==
    /\ result # NoResult
    /\ result.stage = "spread_bps"
    /\ result.orderbook # NoSnapshot
    /\ orderbook_data[<<request.exchange, request.asset>>] # result.orderbook
    /\ result.price # mid_price(orderbook_data[<<request.exchange, request.asset>>])
    /\ result.spread_bps #
           spread_bps(orderbook_data[<<request.exchange, request.asset>>])


\* ------------------------------------- what the simulator passes outwards
\* TradeSimulator.on_connection_status_change: the dictionary given to the
\* external callback for a status of a client; its reconnect_attempts is
\* read from the simulator's own ConnectionManager.
StatusInfo(tok) ==
    [status |-> tok.tok, reconnect_attempts |-> attempts[0]]

\* C39: the reconnect_attempts reported with a status is the reconnect
\* counter of the client that emitted the status.
C39_ReportedCounterIsTheClients ==
    \A c \in Clients : \A i \in DOMAIN tokens[c] :
        StatusInfo(tokens[c][i]).reconnect_attempts = tokens[c][i].n


\* ------------------------------------------------ the waits before a retry
\* connect(), lines 284-288: the wait of the client itself.
BackoffWaits(c) ==
    IF running[c] THEN <<Wait("asyncio.sleep", BackoffSeconds, FALSE)>> ELSE <<>>

\* The waits made on client c's thread between the end of a connection and
\* the next attempt, for a client about to leave line 288: those of
\* handle_connection_failure if the connection ended in the handler of line
\* 269 (fails[c] > 0, the counter was attempts[c] - 1), then its own.
WaitsBeforeAttempt(c) ==
    (IF fails[c] > 0 THEN HandleConnectionFailure(attempts[c] - 1).waits ELSE <<>>)
        \o BackoffWaits(c)

\* C40: between the end of a connection (a failure for which a retry is
\* permitted, or a clean closure) and the next attempt the client waits
\* exactly once, reconnect_delay seconds, without blocking its event loop.
C40_OneBackoffWait ==
    [][\A c \in Clients :
          (pc[c] = "backoff" /\ pc'[c] = "loop" /\ running[c])
             => /\ Len(WaitsBeforeAttempt(c)) = 1
                /\ WaitsBeforeAttempt(c)[1].seconds = reconnect_delay
                /\ ~WaitsBeforeAttempt(c)[1].blocking]_vars

=============================================================================
